---- MODULE Spec2Model ----
(***************************************************************************)
(* Kiwify webhook -> MailerLite relay (src/main.js, lines 1-408).          *)
(*                                                                         *)
(* One invocation of the worker's fetch handler is modelled step by step:  *)
(* the synchronous part of handleKiwifyWebhook (configuration check, body  *)
(* parse, token check, field extraction, product resolution, dispatch) is  *)
(* one action, and every awaited remote call of the handlers is one action *)
(* that issues the call, draws the remote service's answer from the        *)
(* outcomes the service can give, and runs the code up to the next await.  *)
(* The remote directory service is not part of the program: its answers    *)
(* are inputs.  Where a property speaks of what the calls do to the        *)
(* directory, the service is given a state (subscribers, groups, tags) and *)
(* answers from it; elsewhere it answers anything it can answer.  Lines    *)
(* 410-795 of the file hold an earlier copy of the same worker (no product *)
(* suppression, no dry run, tags always on); the model is of the first     *)
(* copy.                                                                   *)
(***************************************************************************)
EXTENDS Naturals, Integers, Sequences, FiniteSets, TLC

VARIABLES
    pc,            \* position of the invocation: "idle", an await point, "done"
    request,       \* the inbound request being served
    env,           \* the environment bindings passed to fetch
    response,      \* the Response returned to the sender (status 0: none yet)
    calls,         \* the remote calls issued by this invocation, in order
    ctx,           \* email, fullName, productId, productConfig handed to the handler
    intent,        \* arguments of the upsertSubscriberInMailerLite call, if made
    subscriberId,  \* local of upsertSubscriberInMailerLite
    idx,           \* position in the group/tag loops of upsertSubscriberInMailerLite
    groupId,       \* local of add/removeSubscriberToGroup; tag id in removeTagFromSubscriber
    guard,         \* locals of handleCheckoutAbandoned: statuses, targetId, groupIds
    directory,     \* the remote directory service, where its state is followed
    parked,        \* the locals of a second invocation suspended at an await, if any
    delivered      \* the invocations completed before this one: calls, response, directory

vars == <<pc, request, env, response, calls, ctx, intent, subscriberId, idx, groupId, guard,
          directory, parked, delivered>>

----------------------------------------------------------------------------
(* JavaScript values.  undefined and null are distinct falsy values; the   *)
(* empty string is falsy as well.                                          *)
Undefined == "undefined"
Null == "null"

Falsy(v) == v \in {Undefined, Null, ""}

\* a || b
Or(a, b) == IF Falsy(a) THEN b ELSE a

\* obj.field for an object given as a function over its own keys
Get(obj, field) == IF field \in DOMAIN obj THEN obj[field] ELSE Undefined

\* the elements of a sequence
Range(s) == {s[i] : i \in 1..Len(s)}

----------------------------------------------------------------------------
(* Bounds of the model.                                                    *)
NumGroupIds == 2

GroupIds == {"g" \o ToString(i) : i \in 1..NumGroupIds}
SubscriberIds == {"sub1"}
TagIds == {"tag1"}

----------------------------------------------------------------------------
(* Product table: mapProduct, resolveProductConfig.  The names are the     *)
(* source's, written in ASCII.                                             *)

PlannerId == "5fade7e0-f9ee-11ef-af9f-2d476897d216"
PoliglotaId == "d801b010-cac6-11f0-921a-c7290f9eeec5"

mapping ==
    (PlannerId :>
        [name |-> "Planner Ingles em 30 dias",
         groupClient |-> "Cliente - Planner Ingles em 30 dias",
         groupCartRecovery |-> "Carrinho Abandonado - Planner Ingles em 30 dias"])
    @@
    (PoliglotaId :>
        [name |-> "Guia do Poliglota",
         groupClient |-> "Cliente - Guia do Poliglota",
         groupCartRecovery |-> "Carrinho Abandonado - Guia do Poliglota"])

fallbackConfig ==
    ("name" :> "Produto Desconhecido")
    @@ ("groupClient" :> "Clientes - Outros")
    @@ ("groupCartRecovery" :> "Recuperacao Carrinho - Outros")
    @@ ("tagBought" :> "comprou_produto_desconhecido")
    @@ ("tagRefund" :> "refund_produto_desconhecido")
    @@ ("tagAbandonedCart" :> "abandonou_carrinho_desconhecido")
    @@ ("__isUnknown" :> "true")   \* the boolean true, a truthy value

mapProduct(productId) ==
    IF productId \in DOMAIN mapping THEN mapping[productId] ELSE fallbackConfig

\* the null returned for a suppressed product: an object with no keys
NullConfig == << >>

\* variant: the opt-in switch is not consulted, unknown products go through
resolveProductConfig_NoSuppress(productId, e) == mapProduct(productId)

\* variant: unknown products are suppressed whatever the switch says
resolveProductConfig_AlwaysSuppress(productId, e) ==
    IF productId \in DOMAIN mapping THEN mapping[productId] ELSE NullConfig

resolveProductConfig(productId, e) ==
    LET cfg == mapProduct(productId)
    IN  IF ~Falsy(Get(cfg, "__isUnknown")) /\ e.PROCESS_UNKNOWN_PRODUCTS # "true"
        THEN NullConfig
        ELSE cfg

----------------------------------------------------------------------------
(* Requests, responses and remote calls.                                   *)

Reply(status, text) == [status |-> status, text |-> text]
NoResponse == Reply(0, "")

\* what the top-level catch of handleKiwifyWebhook returns
Caught == Reply(500, "Error processing webhook")

NoCtx == << >>
NoIntent == << >>
NoInvocation == << >>
NoGuard == [groupStatus |-> 0, targetId |-> Undefined, subStatus |-> 0, groupIds |-> {}]

\* A remote call: the endpoint, the name or email it concerns (ref), the remote
\* group/tag id in its URL (id) and the subscriber id in its URL or body.
Call(op, ref, id, sub) == [op |-> op, ref |-> ref, id |-> id, subscriber |-> sub]

GetSubscriberOp == "GET /subscribers/{email}"
GetMembershipOp == "GET /subscribers/{email}?include=groups"
CreateSubscriberOp == "POST /subscribers"
FindGroupOp == "GET /groups?filter[name]={name}"
AddToGroupOp == "POST /groups/{groupId}/subscribers/{subscriberId}"
RemoveFromGroupOp == "DELETE /subscribers/{subscriberId}/groups/{groupId}"
AddTagOp == "POST /tags"
ListTagsOp == "GET /tags"
RemoveTagOp == "DELETE /tags/{tagId}/subscribers/{subscriberId}"

MutatingOps == {CreateSubscriberOp, AddToGroupOp, RemoveFromGroupOp, AddTagOp, RemoveTagOp}

----------------------------------------------------------------------------
(* handleKiwifyWebhook, lines 16-55: the checks made before dispatch.      *)

\* variant: only KIWIFY_WEBHOOK_TOKEN is read as the secret
tokenExpected_WebhookOnly(e) == Or(e.KIWIFY_WEBHOOK_TOKEN, Null)

tokenExpected(e) == Or(Or(e.KIWIFY_WEBHOOK_TOKEN, e.KIWIFY_TOKEN), Null)

tokenProvided(req) ==
    Or(req.xKiwifyToken, Or(req.xToken, Or(req.payload.token, Null)))

\* payload.token is read only when both headers are absent or empty
ReadsPayloadToken(req) == Falsy(req.xKiwifyToken) /\ Falsy(req.xToken)

extractEmail(req) == Or(req.payload.data.customer_email, req.payload.data.email)
extractFullName(req) == Or(req.payload.data.customer_name, Or(req.payload.data.name, ""))
extractProductId(req) == Or(req.payload.data.product_id, "")

makeCtx(req, e) ==
    [email |-> extractEmail(req),
     fullName |-> extractFullName(req),
     productId |-> extractProductId(req),
     productConfig |-> resolveProductConfig(extractProductId(req), e)]

\* variant: the email is checked before the token
preDispatch_EmailFirst(req, e) ==
    IF Falsy(e.MAILERLITE_API_KEY) THEN Reply(500, "Missing MAILERLITE_API_KEY")
    ELSE IF req.body = "invalid" THEN Caught
    ELSE IF req.body = "null" THEN Caught
    ELSE IF Falsy(extractEmail(req)) THEN Reply(400, "No email in payload")
    ELSE IF ~Falsy(tokenExpected(e)) /\ tokenProvided(req) # tokenExpected(e)
         THEN Reply(401, "Unauthorized")
    ELSE IF makeCtx(req, e).productConfig = NullConfig
         THEN Reply(202, "Ignored unknown product")
    ELSE NoResponse

\* variant: the API key is not checked
preDispatch_KeyUnchecked(req, e) ==
    IF req.body = "invalid" THEN Caught
    ELSE IF req.body = "null" /\ ReadsPayloadToken(req) THEN Caught
    ELSE IF ~Falsy(tokenExpected(e)) /\ tokenProvided(req) # tokenExpected(e)
         THEN Reply(401, "Unauthorized")
    ELSE IF req.body = "null" THEN Caught
    ELSE IF Falsy(extractEmail(req)) THEN Reply(400, "No email in payload")
    ELSE IF makeCtx(req, e).productConfig = NullConfig
         THEN Reply(202, "Ignored unknown product")
    ELSE NoResponse

\* variant: the product is resolved before the email is checked
preDispatch_ProductFirst(req, e) ==
    IF Falsy(e.MAILERLITE_API_KEY) THEN Reply(500, "Missing MAILERLITE_API_KEY")
    ELSE IF req.body = "invalid" THEN Caught
    ELSE IF req.body = "null" /\ ReadsPayloadToken(req) THEN Caught
    ELSE IF ~Falsy(tokenExpected(e)) /\ tokenProvided(req) # tokenExpected(e)
         THEN Reply(401, "Unauthorized")
    ELSE IF req.body = "null" THEN Caught
    ELSE IF makeCtx(req, e).productConfig = NullConfig
         THEN Reply(202, "Ignored unknown product")
    ELSE IF Falsy(extractEmail(req)) THEN Reply(400, "No email in payload")
    ELSE NoResponse

\* The response of the first check that fails, NoResponse when all pass.
\* A body that is not JSON makes JSON.parse throw; a body that is the JSON
\* value null parses, and the first property read of the payload throws.
preDispatch(req, e) ==
    IF Falsy(e.MAILERLITE_API_KEY) THEN Reply(500, "Missing MAILERLITE_API_KEY")
    ELSE IF req.body = "invalid" THEN Caught
    ELSE IF req.body = "null" /\ ReadsPayloadToken(req) THEN Caught
    ELSE IF ~Falsy(tokenExpected(e)) /\ tokenProvided(req) # tokenExpected(e)
         THEN Reply(401, "Unauthorized")
    ELSE IF req.body = "null" THEN Caught
    ELSE IF Falsy(extractEmail(req)) THEN Reply(400, "No email in payload")
    ELSE IF makeCtx(req, e).productConfig = NullConfig
         THEN Reply(202, "Ignored unknown product")
    ELSE NoResponse

----------------------------------------------------------------------------
(* The intents the three handlers hand to upsertSubscriberInMailerLite.    *)

\* variant: an approved order detaches the abandoned-cart tag only
handleOrderApproved_OneTagRemoved(c) ==
    [email |-> c.email,
     name |-> c.fullName,
     groupsToAdd |-> <<Get(c.productConfig, "groupClient")>>,
     groupsToRemove |-> <<Get(c.productConfig, "groupCartRecovery")>>,
     tagsToAdd |-> <<Get(c.productConfig, "tagBought")>>,
     tagsToRemove |-> <<Get(c.productConfig, "tagAbandonedCart")>>]

handleOrderApproved(c) ==
    [email |-> c.email,
     name |-> c.fullName,
     groupsToAdd |-> <<Get(c.productConfig, "groupClient")>>,
     groupsToRemove |-> <<Get(c.productConfig, "groupCartRecovery")>>,
     tagsToAdd |-> <<Get(c.productConfig, "tagBought")>>,
     tagsToRemove |-> <<Get(c.productConfig, "tagAbandonedCart"),
                        Get(c.productConfig, "tagRefund")>>]

\* variant: a refund also removes the subscriber from the cart-recovery group
handleOrderRefundOrCancel_AlsoCart(c) ==
    [email |-> c.email,
     name |-> Undefined,
     groupsToAdd |-> << >>,
     groupsToRemove |-> <<Get(c.productConfig, "groupClient"),
                          Get(c.productConfig, "groupCartRecovery")>>,
     tagsToAdd |-> <<Get(c.productConfig, "tagRefund")>>,
     tagsToRemove |-> << >>]

handleOrderRefundOrCancel(c) ==
    [email |-> c.email,
     name |-> Undefined,
     groupsToAdd |-> << >>,
     groupsToRemove |-> <<Get(c.productConfig, "groupClient")>>,
     tagsToAdd |-> <<Get(c.productConfig, "tagRefund")>>,
     tagsToRemove |-> << >>]

\* variant: the cart-recovery intent also removes the client group
cartRecoveryIntent_WithRemoval(c) ==
    [email |-> c.email,
     name |-> Undefined,
     groupsToAdd |-> <<Get(c.productConfig, "groupCartRecovery")>>,
     groupsToRemove |-> <<Get(c.productConfig, "groupClient")>>,
     tagsToAdd |-> <<Get(c.productConfig, "tagAbandonedCart")>>,
     tagsToRemove |-> << >>]

\* handleCheckoutAbandoned, lines 206-210
cartRecoveryIntent(c) ==
    [email |-> c.email,
     name |-> Undefined,
     groupsToAdd |-> <<Get(c.productConfig, "groupCartRecovery")>>,
     groupsToRemove |-> << >>,
     tagsToAdd |-> <<Get(c.productConfig, "tagAbandonedCart")>>,
     tagsToRemove |-> << >>]

\* variant: order.created is handled as a refund
RefundEvents_WithCreated ==
    {"order.refunded", "order.chargeback", "order.canceled", "order.created"}

RefundEvents == {"order.refunded", "order.chargeback", "order.canceled"}
HandledEvents == {"order.approved", "checkout.abandoned"} \cup RefundEvents

----------------------------------------------------------------------------
(* upsertSubscriberInMailerLite, lines 269-286: the group and tag loops as *)
(* the list of helper calls they make, in order.                           *)

Instr(kind, refs) == [i \in 1..Len(refs) |-> [kind |-> kind, ref |-> refs[i]]]

\* variant: the tag loops run before the group loops
Instructions_TagsFirst(in, e) ==
    (IF e.USE_TAGS = "true"
     THEN Instr("addTagToSubscriber", in.tagsToAdd)
          \o Instr("removeTagFromSubscriber", in.tagsToRemove)
     ELSE << >>)
    \o Instr("addSubscriberToGroup", in.groupsToAdd)
    \o Instr("removeSubscriberFromGroup", in.groupsToRemove)

\* variant: USE_TAGS is not consulted
Instructions_TagsAlways(in, e) ==
    Instr("addSubscriberToGroup", in.groupsToAdd)
    \o Instr("removeSubscriberFromGroup", in.groupsToRemove)
    \o Instr("addTagToSubscriber", in.tagsToAdd)
    \o Instr("removeTagFromSubscriber", in.tagsToRemove)

Instructions(in, e) ==
    Instr("addSubscriberToGroup", in.groupsToAdd)
    \o Instr("removeSubscriberFromGroup", in.groupsToRemove)
    \o (IF e.USE_TAGS = "true"
        THEN Instr("addTagToSubscriber", in.tagsToAdd)
             \o Instr("removeTagFromSubscriber", in.tagsToRemove)
        ELSE << >>)

\* the first await of each helper
HelperPc(kind) ==
    CASE kind = "addSubscriberToGroup" -> "addSubscriberToGroup:findGroupId"
      [] kind = "removeSubscriberFromGroup" -> "removeSubscriberFromGroup:findGroupId"
      [] kind = "addTagToSubscriber" -> "addTagToSubscriber:post"
      [] kind = "removeTagFromSubscriber" -> "removeTagFromSubscriber:list"

\* the invocation returns its response
Finish(r) ==
    /\ pc' = "done"
    /\ response' = r

\* variant: an exception is not caught, the invocation ends without a response
Throw_Uncaught ==
    /\ pc' = "crashed"
    /\ UNCHANGED response

\* an exception reaches the catch of handleKiwifyWebhook (lines 98-101)
Throw == Finish(Caught)

\* the handler returned: line 97
Processed == Finish(Reply(200, "Webhook processed"))

\* run the loops from instruction i on, up to the next await
GoTo(i) ==
    LET todo == Instructions(intent, env)
    IN  IF i > Len(todo)
        THEN Processed /\ idx' = 0
        ELSE /\ pc' = HelperPc(todo[i].kind)
             /\ idx' = i
             /\ UNCHANGED response

Current == Instructions(intent, env)[idx]

\* variant: the dry-run flag is not consulted
EnterUpsert_IgnoreDryRun(in, e) ==
    /\ intent' = in
    /\ pc' = "upsert:getSubscriber"
    /\ response' = NoResponse

\* upsertSubscriberInMailerLite is called with intent in: lines 216-225
EnterUpsert(in, e) ==
    /\ intent' = in
    /\ IF e.MAILERLITE_DRY_RUN = "true"
       THEN Processed
       ELSE pc' = "upsert:getSubscriber" /\ response' = NoResponse

----------------------------------------------------------------------------
(* The remote service's answers.  A call either fails in transport or      *)
(* answers with a body that cannot be read (the await throws), or answers  *)
(* with a status and, where the code reads it, the part of the body read.  *)

Throws == [throws |-> TRUE]
Answer(status, v) == [throws |-> FALSE, status |-> status, value |-> v]

\* GET /subscribers/{email}: j.id or j.data.id, null when the body has neither
GetSubscriberAnswers ==
    {Throws, Answer(404, Null)} \cup {Answer(200, i) : i \in SubscriberIds \cup {Null}}

CreateSubscriberAnswers ==
    {Throws, Answer(422, Null)}
    \cup {Answer(st, i) : st \in {200, 201}, i \in SubscriberIds \cup {Null}}

\* GET /groups?filter[name]=...: payload.data[0].id, undefined when there is none
FindGroupAnswers ==
    {Throws, Answer(500, Undefined)} \cup {Answer(200, g) : g \in GroupIds \cup {Undefined}}

\* GET /subscribers/{email}?include=groups: the ids of the groups listed
\* (a groups field that is absent or no array gives the empty list)
GetMembershipAnswers ==
    {Throws, Answer(404, {})} \cup {Answer(200, gs) : gs \in SUBSET GroupIds}

\* calls whose answer is awaited and not read
UnreadAnswers == {Throws, Answer(200, Undefined), Answer(500, Undefined)}

AddTagAnswers == {Throws} \cup {Answer(st, Undefined) : st \in {200, 201, 422}}

\* GET /tags: the id of the tag found by name, undefined when none matches
ListTagsAnswers ==
    {Throws, Answer(500, Undefined)} \cup {Answer(200, t) : t \in TagIds \cup {Undefined}}

\* the entry of the log of calls: the call and the status it was answered
\* with (0: no answer, the await threw)
Answered(c, a) ==
    [op |-> c.op, ref |-> c.ref, id |-> c.id, subscriber |-> c.subscriber,
     status |-> IF a.throws THEN 0 ELSE a.status]

----------------------------------------------------------------------------
(* The directory service with a state: subscribers by email, groups and    *)
(* tags by name, memberships and tag attachments by remote id.  Its adds,  *)
(* removes, attaches and detaches are idempotent, a tag is created by its  *)
(* first attachment, and it never fails in transport.                      *)

Unfollowed == [modelled |-> FALSE]

Directory(subs, groups, members, tags, tagged) ==
    [modelled |-> TRUE, subscribers |-> subs, groups |-> groups, members |-> members,
     tags |-> tags, tagged |-> tagged]

SubscriberIdOf(email) == "sub:" \o email
GroupIdOf(name) == "group:" \o name
TagIdOf(name) == "tag:" \o name

\* the answer of the directory d to the call c
DirectoryAnswer(d, c) ==
    CASE c.op = GetSubscriberOp ->
           IF c.ref \in d.subscribers THEN Answer(200, SubscriberIdOf(c.ref))
           ELSE Answer(404, Null)
      [] c.op = GetMembershipOp ->
           IF c.ref \in d.subscribers
           THEN Answer(200, {m[2] : m \in {n \in d.members : n[1] = SubscriberIdOf(c.ref)}})
           ELSE Answer(404, {})
      [] c.op = CreateSubscriberOp ->
           IF c.ref \in d.subscribers THEN Answer(200, SubscriberIdOf(c.ref))
           ELSE Answer(201, SubscriberIdOf(c.ref))
      [] c.op = FindGroupOp ->
           IF c.ref \in d.groups THEN Answer(200, GroupIdOf(c.ref))
           ELSE Answer(200, Undefined)
      [] c.op = AddTagOp ->
           IF Falsy(c.ref) THEN Answer(422, Undefined)
           ELSE IF c.ref \in d.tags THEN Answer(200, Undefined)
           ELSE Answer(201, Undefined)
      [] c.op = ListTagsOp ->
           IF c.ref \in d.tags THEN Answer(200, TagIdOf(c.ref))
           ELSE Answer(200, Undefined)
      [] OTHER -> Answer(200, Undefined)

\* the directory after it answered a to the call c
DirectoryAfter(d, c, a) ==
    IF ~d.modelled \/ a.throws \/ a.status \notin {200, 201} THEN d
    ELSE CASE c.op = CreateSubscriberOp ->
                [d EXCEPT !.subscribers = @ \cup {c.ref}]
           [] c.op = AddToGroupOp ->
                [d EXCEPT !.members = @ \cup {<<c.subscriber, c.id>>}]
           [] c.op = RemoveFromGroupOp ->
                [d EXCEPT !.members = @ \ {<<c.subscriber, c.id>>}]
           [] c.op = AddTagOp ->
                [d EXCEPT !.tags = @ \cup {c.ref},
                          !.tagged = @ \cup {<<c.subscriber, TagIdOf(c.ref)>>}]
           [] c.op = RemoveTagOp ->
                [d EXCEPT !.tagged = @ \ {<<c.subscriber, c.id>>}]
           [] OTHER -> d

\* the answers the service can give to the call c, all being the answers
\* the code can tell apart
Answers(all, c) ==
    IF directory.modelled THEN {DirectoryAnswer(directory, c)} ELSE all

\* the call c is answered a: the log and the directory after it
Remote(c, a) ==
    /\ calls' = Append(calls, Answered(c, a))
    /\ directory' = DirectoryAfter(directory, c, a)

----------------------------------------------------------------------------
(* fetch (lines 2-10) and handleKiwifyWebhook up to its first remote call. *)

\* the invocation serving req under e, up to its first await or its return
Start(req, e) ==
    /\ request' = req
    /\ env' = e
    /\ calls' = << >>
    /\ subscriberId' = Null
    /\ idx' = 0
    /\ groupId' = Null
    /\ guard' = NoGuard
    /\ IF ~(req.path = "/webhook" /\ req.method = "POST")
       THEN Finish(Reply(200, "OK")) /\ ctx' = NoCtx /\ intent' = NoIntent
       ELSE IF preDispatch(req, e) # NoResponse
       THEN Finish(preDispatch(req, e)) /\ ctx' = NoCtx /\ intent' = NoIntent
       ELSE /\ ctx' = makeCtx(req, e)
            /\ CASE req.payload.event = "order.approved" ->
                      EnterUpsert(handleOrderApproved(makeCtx(req, e)), e)
                 [] req.payload.event \in RefundEvents ->
                      EnterUpsert(handleOrderRefundOrCancel(makeCtx(req, e)), e)
                 [] req.payload.event = "checkout.abandoned" ->
                      /\ pc' = "handleCheckoutAbandoned:getGroup"
                      /\ intent' = NoIntent
                      /\ response' = NoResponse
                 [] OTHER ->
                      Processed /\ intent' = NoIntent

WorkerFetchFrom(Reqs, Es) ==
    /\ pc = "idle"
    /\ \E req \in Reqs, e \in Es : Start(req, e)
    /\ UNCHANGED <<directory, parked, delivered>>

----------------------------------------------------------------------------
(* handleCheckoutAbandoned, lines 177-211.                                 *)

GetGroupCall == Call(FindGroupOp, Get(ctx.productConfig, "groupClient"), Undefined, Undefined)
GetMembershipCall == Call(GetMembershipOp, ctx.email, Undefined, Undefined)

\* line 181: look the client group up by name
AbandonedGetGroup ==
    /\ pc = "handleCheckoutAbandoned:getGroup"
    /\ \E a \in Answers(FindGroupAnswers, GetGroupCall) :
        /\ Remote(GetGroupCall, a)
        /\ IF a.throws
           THEN Throw /\ UNCHANGED <<intent, guard>>
           ELSE /\ guard' = [guard EXCEPT !.groupStatus = a.status,
                                          !.targetId = IF a.status = 200 THEN a.value
                                                       ELSE Undefined]
                /\ IF a.status = 200 /\ ~Falsy(a.value)
                   THEN /\ pc' = "handleCheckoutAbandoned:getSubscriber"
                        /\ UNCHANGED <<intent, response>>
                   ELSE EnterUpsert(cartRecoveryIntent(ctx), env)
    /\ UNCHANGED <<request, env, ctx, subscriberId, idx, groupId, parked, delivered>>

\* variant: the membership found is not acted on
AbandonedGetSubscriber_NoGuard ==
    /\ pc = "handleCheckoutAbandoned:getSubscriber"
    /\ \E a \in Answers(GetMembershipAnswers, GetMembershipCall) :
        /\ Remote(GetMembershipCall, a)
        /\ IF a.throws
           THEN Throw /\ UNCHANGED <<intent, guard>>
           ELSE /\ guard' = [guard EXCEPT !.subStatus = a.status,
                                          !.groupIds = IF a.status = 200 THEN a.value ELSE {}]
                /\ EnterUpsert(cartRecoveryIntent(ctx), env)
    /\ UNCHANGED <<request, env, ctx, subscriberId, idx, groupId, parked, delivered>>

\* line 189: read the subscriber's groups; lines 193-210
AbandonedGetSubscriber ==
    /\ pc = "handleCheckoutAbandoned:getSubscriber"
    /\ \E a \in Answers(GetMembershipAnswers, GetMembershipCall) :
        /\ Remote(GetMembershipCall, a)
        /\ IF a.throws
           THEN Throw /\ UNCHANGED <<intent, guard>>
           ELSE /\ guard' = [guard EXCEPT !.subStatus = a.status,
                                          !.groupIds = IF a.status = 200 THEN a.value ELSE {}]
                /\ IF a.status = 200 /\ guard.targetId \in a.value
                   THEN Processed /\ UNCHANGED intent
                   ELSE EnterUpsert(cartRecoveryIntent(ctx), env)
    /\ UNCHANGED <<request, env, ctx, subscriberId, idx, groupId, parked, delivered>>

----------------------------------------------------------------------------
(* upsertSubscriberInMailerLite, lines 227-267: resolve or create.         *)

GetSubscriberCall == Call(GetSubscriberOp, intent.email, Undefined, Undefined)
CreateSubscriberCall == Call(CreateSubscriberOp, intent.email, Undefined, Undefined)

\* variant: the id of the subscriber found is not kept
UpsertGetSubscriber_NeverFound ==
    /\ pc = "upsert:getSubscriber"
    /\ \E a \in Answers(GetSubscriberAnswers, GetSubscriberCall) :
        /\ Remote(GetSubscriberCall, a)
        /\ IF a.throws
           THEN Throw /\ UNCHANGED <<subscriberId, idx>>
           ELSE /\ subscriberId' = Null
                /\ pc' = "upsert:createSubscriber"
                /\ UNCHANGED <<response, idx>>
    /\ UNCHANGED <<request, env, ctx, intent, groupId, guard, parked, delivered>>

UpsertGetSubscriber ==
    /\ pc = "upsert:getSubscriber"
    /\ \E a \in Answers(GetSubscriberAnswers, GetSubscriberCall) :
        /\ Remote(GetSubscriberCall, a)
        /\ IF a.throws
           THEN Throw /\ UNCHANGED <<subscriberId, idx>>
           ELSE LET id == IF a.status = 200 THEN a.value ELSE Null
                IN  /\ subscriberId' = id
                    /\ IF Falsy(id)
                       THEN pc' = "upsert:createSubscriber" /\ UNCHANGED <<response, idx>>
                       ELSE GoTo(1)
    /\ UNCHANGED <<request, env, ctx, intent, groupId, guard, parked, delivered>>

\* variant: a refused creation does not end the reconciliation
UpsertCreateSubscriber_NoAbort ==
    /\ pc = "upsert:createSubscriber"
    /\ \E a \in Answers(CreateSubscriberAnswers, CreateSubscriberCall) :
        /\ Remote(CreateSubscriberCall, a)
        /\ IF a.throws
           THEN Throw /\ UNCHANGED <<subscriberId, idx>>
           ELSE subscriberId' = a.value /\ GoTo(1)
    /\ UNCHANGED <<request, env, ctx, intent, groupId, guard, parked, delivered>>

UpsertCreateSubscriber ==
    /\ pc = "upsert:createSubscriber"
    /\ \E a \in Answers(CreateSubscriberAnswers, CreateSubscriberCall) :
        /\ Remote(CreateSubscriberCall, a)
        /\ IF a.throws
           THEN Throw /\ UNCHANGED <<subscriberId, idx>>
           ELSE IF a.status \in {200, 201}
           THEN subscriberId' = a.value /\ GoTo(1)
           ELSE Processed /\ UNCHANGED <<subscriberId, idx>>
    /\ UNCHANGED <<request, env, ctx, intent, groupId, guard, parked, delivered>>

----------------------------------------------------------------------------
(* addSubscriberToGroup / removeSubscriberFromGroup / getGroupId /         *)
(* findGroupId, lines 292-351.                                             *)

FindGroupCall == Call(FindGroupOp, Current.ref, Undefined, Undefined)

\* variant: a group lookup answered with a status other than 200 ends the loops
FindGroupStep_StopOnRefusal(helperPc, callPc) ==
    /\ pc = helperPc
    /\ IF Falsy(Current.ref)
       THEN GoTo(idx + 1) /\ UNCHANGED <<calls, groupId, directory>>
       ELSE \E a \in Answers(FindGroupAnswers, FindGroupCall) :
                /\ Remote(FindGroupCall, a)
                /\ IF a.throws
                   THEN Throw /\ UNCHANGED <<idx, groupId>>
                   ELSE IF a.status = 200 /\ ~Falsy(a.value)
                   THEN /\ groupId' = a.value
                        /\ pc' = callPc
                        /\ UNCHANGED <<response, idx>>
                   ELSE IF a.status = 200
                   THEN GoTo(idx + 1) /\ UNCHANGED groupId
                   ELSE Processed /\ UNCHANGED <<idx, groupId>>
    /\ UNCHANGED <<request, env, ctx, intent, subscriberId, guard, parked, delivered>>

\* getGroupId: a falsy groupRef gives null without a call; a name is looked
\* up by findGroupId, which gives null on a status other than 200.
FindGroupStep(helperPc, callPc) ==
    /\ pc = helperPc
    /\ IF Falsy(Current.ref)
       THEN GoTo(idx + 1) /\ UNCHANGED <<calls, groupId, directory>>
       ELSE \E a \in Answers(FindGroupAnswers, FindGroupCall) :
                /\ Remote(FindGroupCall, a)
                /\ IF a.throws
                   THEN Throw /\ UNCHANGED <<idx, groupId>>
                   ELSE IF a.status = 200 /\ ~Falsy(a.value)
                   THEN /\ groupId' = a.value
                        /\ pc' = callPc
                        /\ UNCHANGED <<response, idx>>
                   ELSE GoTo(idx + 1) /\ UNCHANGED groupId
    /\ UNCHANGED <<request, env, ctx, intent, subscriberId, guard, parked, delivered>>

\* the helper's mutating call, whose answer is awaited and not read
MutateStep(callPc, call) ==
    /\ pc = callPc
    /\ groupId' = Null
    /\ \E a \in Answers(UnreadAnswers, call) :
        /\ Remote(call, a)
        /\ IF a.throws THEN Throw /\ UNCHANGED idx ELSE GoTo(idx + 1)
    /\ UNCHANGED <<request, env, ctx, intent, subscriberId, guard, parked, delivered>>

AddGroupFind ==
    FindGroupStep("addSubscriberToGroup:findGroupId", "addSubscriberToGroup:post")

AddGroupPost ==
    MutateStep("addSubscriberToGroup:post",
               Call(AddToGroupOp, Current.ref, groupId, subscriberId))

RemoveGroupFind ==
    FindGroupStep("removeSubscriberFromGroup:findGroupId", "removeSubscriberFromGroup:delete")

RemoveGroupDelete ==
    MutateStep("removeSubscriberFromGroup:delete",
               Call(RemoveFromGroupOp, Current.ref, groupId, subscriberId))

----------------------------------------------------------------------------
(* addTagToSubscriber / removeTagFromSubscriber, lines 356-408.            *)

AddTagCall == Call(AddTagOp, Current.ref, Undefined, subscriberId)
ListTagsCall == Call(ListTagsOp, Current.ref, Undefined, Undefined)

AddTagPost ==
    /\ pc = "addTagToSubscriber:post"
    /\ \E a \in Answers(AddTagAnswers, AddTagCall) :
        /\ Remote(AddTagCall, a)
        /\ IF a.throws THEN Throw /\ UNCHANGED idx ELSE GoTo(idx + 1)
    /\ UNCHANGED <<request, env, ctx, intent, subscriberId, groupId, guard, parked, delivered>>

RemoveTagList ==
    /\ pc = "removeTagFromSubscriber:list"
    /\ \E a \in Answers(ListTagsAnswers, ListTagsCall) :
        /\ Remote(ListTagsCall, a)
        /\ IF a.throws
           THEN Throw /\ UNCHANGED <<idx, groupId>>
           ELSE IF a.status = 200 /\ ~Falsy(a.value)
           THEN /\ groupId' = a.value
                /\ pc' = "removeTagFromSubscriber:delete"
                /\ UNCHANGED <<response, idx>>
           ELSE GoTo(idx + 1) /\ UNCHANGED groupId
    /\ UNCHANGED <<request, env, ctx, intent, subscriberId, guard, parked, delivered>>

RemoveTagDelete ==
    MutateStep("removeTagFromSubscriber:delete",
               Call(RemoveTagOp, Current.ref, groupId, subscriberId))

----------------------------------------------------------------------------
(* Inputs: the requests and environments an invocation is given.           *)

Request(path, method, body, xk, xt, token, event, ce, em, cn, nm, pid) ==
    [path |-> path, method |-> method, body |-> body,
     xKiwifyToken |-> xk, xToken |-> xt,
     payload |-> [token |-> token, event |-> event,
                  data |-> [customer_email |-> ce, email |-> em,
                            customer_name |-> cn, name |-> nm,
                            product_id |-> pid]]]

\* a body that is no JSON object carries no payload field
Bodyless(path, method, body, xk, xt) ==
    Request(path, method, body, xk, xt, Undefined, Undefined, Undefined, Undefined,
            Undefined, Undefined, Undefined)

Events == HandledEvents \cup {"order.created", "", Undefined}
ProductIds == {PlannerId, PoliglotaId, "999", Undefined}
NamePairs == {<<Undefined, Undefined>>, <<"Ann", "Bob">>}

Requests ==
    {Request("/webhook", "POST", "object", xk, Null, Undefined, ev, ce, em, n[1], n[2], pid) :
        xk \in {Null, "tokA"}, ev \in Events,
        ce \in {Undefined, "a@x.com"}, em \in {Undefined, "b@x.com"},
        n \in NamePairs, pid \in ProductIds}
    \cup {Bodyless("/webhook", "POST", b, xk, Null) :
            b \in {"invalid", "null"}, xk \in {Null, "tokA"}}
    \cup {Bodyless("/webhook", "GET", "invalid", Null, Null),
          Bodyless("/", "POST", "invalid", Null, Null)}

Flags == {"true", "false"}

Envs ==
    [MAILERLITE_API_KEY : {Undefined, "", "ml-key"},
     KIWIFY_WEBHOOK_TOKEN : {"tokA"},
     KIWIFY_TOKEN : {Undefined},
     PROCESS_UNKNOWN_PRODUCTS : Flags,
     MAILERLITE_DRY_RUN : Flags,
     USE_TAGS : Flags]

----------------------------------------------------------------------------
Init ==
    /\ pc = "idle"
    /\ request = Bodyless("/", "GET", "invalid", Null, Null)
    /\ env = [k \in {"MAILERLITE_API_KEY"} |-> Undefined]
    /\ response = NoResponse
    /\ calls = << >>
    /\ ctx = NoCtx
    /\ intent = NoIntent
    /\ subscriberId = Null
    /\ idx = 0
    /\ groupId = Null
    /\ guard = NoGuard
    /\ directory = Unfollowed
    /\ parked = NoInvocation
    /\ delivered = << >>

WorkerFetch == WorkerFetchFrom(Requests, Envs)

Steps ==
    \/ AbandonedGetGroup
    \/ AbandonedGetSubscriber
    \/ UpsertGetSubscriber
    \/ UpsertCreateSubscriber
    \/ AddGroupFind
    \/ AddGroupPost
    \/ RemoveGroupFind
    \/ RemoveGroupDelete
    \/ AddTagPost
    \/ RemoveTagList
    \/ RemoveTagDelete

Next == WorkerFetch \/ Steps

Spec == Init /\ [][Next]_vars

----------------------------------------------------------------------------
(* The same program on requests and environments that vary the shared      *)
(* secret and the three places a request can carry its token.              *)

Tokens == {"tokA", "tokB"}

AuthRequests ==
    {Request("/webhook", "POST", "object", xk, xt, tk, ev, ce, Undefined,
             Undefined, Undefined, PlannerId) :
        xk \in Tokens \cup {Null}, xt \in {"tokA", Null}, tk \in {"tokB", Undefined},
        ev \in {"order.approved", "checkout.abandoned"}, ce \in {Undefined, "a@x.com"}}
    \cup {Bodyless("/webhook", "POST", b, xk, xt) :
            b \in {"invalid", "null"}, xk \in Tokens \cup {Null}, xt \in Tokens \cup {Null}}

AuthEnvs ==
    [MAILERLITE_API_KEY : {Undefined, "ml-key"},
     KIWIFY_WEBHOOK_TOKEN : {Undefined, "tokA"},
     KIWIFY_TOKEN : {Undefined, "tokB"},
     PROCESS_UNKNOWN_PRODUCTS : {"false"},
     MAILERLITE_DRY_RUN : {"false"},
     USE_TAGS : {"true"}]

WorkerFetchAuth == WorkerFetchFrom(AuthRequests, AuthEnvs)

NextAuth == WorkerFetchAuth \/ Steps

SpecAuth == Init /\ [][NextAuth]_vars

----------------------------------------------------------------------------
(* The same program under the scheduling of the runtime: an invocation     *)
(* suspended at an await is resumed when its remote call is answered or    *)
(* rejected, so a step that can be taken is eventually taken.  The inputs  *)
(* vary what decides the path of the invocation.                           *)

LiveRequests ==
    {Request("/webhook", "POST", "object", xk, Null, Undefined, ev, ce, Undefined,
             Undefined, Undefined, pid) :
        xk \in {Null, "tokA"}, ev \in Events, ce \in {Undefined, "a@x.com"},
        pid \in {PlannerId, "999"}}
    \cup {Bodyless("/webhook", "POST", b, "tokA", Null) : b \in {"invalid", "null"}}
    \cup {Bodyless("/", "POST", "invalid", Null, Null)}

WorkerFetchLive == WorkerFetchFrom(LiveRequests, Envs)

NextLive == WorkerFetchLive \/ Steps

SpecLive == Init /\ [][NextLive]_vars /\ WF_vars(Steps)

----------------------------------------------------------------------------
(* The same program against a directory whose state is followed.  The      *)
(* worker keeps nothing between invocations (fetch, lines 2-10, starts     *)
(* every invocation from its request and env alone), so the same event can *)
(* be delivered again after the first delivery completed, and the runtime  *)
(* can start a second invocation while the first is suspended at an await  *)
(* and resume either of them when its call is answered.                    *)

OneEmail == "a@x.com"

DirectoryRequests ==
    {Request("/webhook", "POST", "object", Null, Null, Undefined, ev, OneEmail, Undefined,
             Undefined, Undefined, pid) :
        ev \in HandledEvents, pid \in {PlannerId, "999"}}

DirectoryEnvs ==
    [MAILERLITE_API_KEY : {"ml-key"},
     KIWIFY_WEBHOOK_TOKEN : {Undefined},
     KIWIFY_TOKEN : {Undefined},
     PROCESS_UNKNOWN_PRODUCTS : {"true"},
     MAILERLITE_DRY_RUN : {"false"},
     USE_TAGS : Flags]

\* the groups of every product exist in the directory
AllGroups ==
    {c[f] : c \in {mapping[PlannerId], mapping[PoliglotaId], fallbackConfig},
            f \in {"groupClient", "groupCartRecovery"}}

\* the directories an invocation can find: the subscriber absent, or present
\* with any of the fallback product's groups and its abandoned-cart tag
Directories ==
    {Directory({}, AllGroups, {}, {}, {})}
    \cup {Directory({OneEmail}, AllGroups,
                    {<<SubscriberIdOf(OneEmail), GroupIdOf(g)>> : g \in gs},
                    ts,
                    {<<SubscriberIdOf(OneEmail), TagIdOf(t)>> : t \in ts}) :
            gs \in SUBSET {fallbackConfig["groupClient"], fallbackConfig["groupCartRecovery"]},
            ts \in SUBSET {fallbackConfig["tagAbandonedCart"]}}

InitDirectory ==
    /\ pc = "idle"
    /\ request = Bodyless("/", "GET", "invalid", Null, Null)
    /\ env = [k \in {"MAILERLITE_API_KEY"} |-> Undefined]
    /\ response = NoResponse
    /\ calls = << >>
    /\ ctx = NoCtx
    /\ intent = NoIntent
    /\ subscriberId = Null
    /\ idx = 0
    /\ groupId = Null
    /\ guard = NoGuard
    /\ directory \in Directories
    /\ parked = NoInvocation
    /\ delivered = << >>

WorkerFetchDirectory == WorkerFetchFrom(DirectoryRequests, DirectoryEnvs)

\* the locals of the running invocation
Locals ==
    [pc |-> pc, request |-> request, response |-> response, calls |-> calls, ctx |-> ctx,
     intent |-> intent, subscriberId |-> subscriberId, idx |-> idx, groupId |-> groupId,
     guard |-> guard]

\* the event of the completed invocation is delivered once more
Redeliver ==
    /\ pc = "done"
    /\ delivered = << >>
    /\ parked = NoInvocation
    /\ delivered' = <<[calls |-> calls, response |-> response, directory |-> directory]>>
    /\ Start(request, env)
    /\ UNCHANGED <<directory, parked>>

\* the event a purchase flow sends beside ev for the same email and product
Companion(ev) == IF ev = "order.approved" THEN "checkout.abandoned" ELSE "order.approved"

\* a second invocation starts while the first is suspended or done
Arrive ==
    /\ pc # "idle"
    /\ delivered = << >>
    /\ parked = NoInvocation
    /\ request.payload.event \in {"order.approved", "checkout.abandoned"}
    /\ parked' = Locals
    /\ Start([request EXCEPT !.payload.event = Companion(request.payload.event)], env)
    /\ UNCHANGED <<directory, delivered>>

\* the runtime resumes the suspended invocation in place of the running one
Resume ==
    /\ parked # NoInvocation
    /\ parked.pc # "done"
    /\ parked' = Locals
    /\ pc' = parked.pc
    /\ request' = parked.request
    /\ response' = parked.response
    /\ calls' = parked.calls
    /\ ctx' = parked.ctx
    /\ intent' = parked.intent
    /\ subscriberId' = parked.subscriberId
    /\ idx' = parked.idx
    /\ groupId' = parked.groupId
    /\ guard' = parked.guard
    /\ UNCHANGED <<env, directory, delivered>>

NextDirectory == WorkerFetchDirectory \/ Steps \/ Redeliver \/ Arrive \/ Resume

SpecDirectory == InitDirectory /\ [][NextDirectory]_vars

----------------------------------------------------------------------------
(* Vocabulary of the properties.                                           *)

Received == pc # "idle"
Done == pc = "done"
IsWebhook == request.path = "/webhook" /\ request.method = "POST"
ApiKeyConfigured == env.MAILERLITE_API_KEY \notin {Undefined, Null, ""}
BodyParses == request.body # "invalid"
BodyIsObject == request.body = "object"
NoCalls == calls = << >>
Issued(ops) == {i \in 1..Len(calls) : calls[i].op \in ops}
NoMutation == Issued(MutatingOps) = {}

Present(v) == v \notin {Undefined, Null, ""}

\* the configured shared secret, if any
Secret ==
    IF Present(env.KIWIFY_WEBHOOK_TOKEN) THEN env.KIWIFY_WEBHOOK_TOKEN
    ELSE IF Present(env.KIWIFY_TOKEN) THEN env.KIWIFY_TOKEN
    ELSE Null

\* the token the request supplies: header x-kiwify-token, else header
\* x-token, else body field token, else none
Supplied ==
    IF Present(request.xKiwifyToken) THEN request.xKiwifyToken
    ELSE IF Present(request.xToken) THEN request.xToken
    ELSE IF Present(request.payload.token) THEN request.payload.token
    ELSE Null

\* the supplied token can be determined: a header carries it, or the payload
\* is an object whose token field can be read
TokenReadable ==
    BodyParses /\ (BodyIsObject \/ Present(request.xKiwifyToken) \/ Present(request.xToken))

TokenCheckPasses == TokenReadable /\ (Secret = Null \/ Supplied = Secret)

NoEmail ==
    ~Present(request.payload.data.customer_email) /\ ~Present(request.payload.data.email)

KnownProducts == {PlannerId, PoliglotaId}
UnknownProduct == request.payload.data.product_id \notin KnownProducts

\* the request passed every check that precedes product resolution
ReachesResolution ==
    IsWebhook /\ ApiKeyConfigured /\ BodyIsObject /\ TokenCheckPasses /\ ~NoEmail

----------------------------------------------------------------------------
\* C1 (as stated): with the API key configured, a body that parses and a
\* passing token check, a payload with neither data.customer_email nor
\* data.email is answered 400, and no remote call is issued.
C1_AnyParsedBody ==
    (Received /\ IsWebhook /\ ApiKeyConfigured /\ BodyParses /\ TokenCheckPasses /\ NoEmail)
        => (Done /\ response.status = 400 /\ NoCalls)

\* C1 (amended): the same for a body that parses to a JSON value other than
\* null; whatever the event type and the product id.
C1_MissingEmail ==
    (Received /\ IsWebhook /\ ApiKeyConfigured /\ BodyIsObject /\ TokenCheckPasses /\ NoEmail)
        => (Done /\ response.status = 400 /\ NoCalls)

C1_Witness ==
    /\ Done /\ IsWebhook /\ ApiKeyConfigured /\ BodyIsObject /\ NoEmail
    /\ Secret = "tokA" /\ Supplied = "tokA"
    /\ request.payload.event = "order.approved"
    /\ request.payload.data.product_id = "999"
    /\ env.PROCESS_UNKNOWN_PRODUCTS = "false"
    /\ response = Reply(400, "No email in payload")
    /\ NoCalls

\* C2 (as stated): whenever a shared secret is configured and the supplied
\* token differs from it, the response is 401 and no remote call is issued;
\* with no secret configured no request is rejected by the token check.
C2_AnyRequest ==
    (Received /\ IsWebhook) =>
        /\ (Secret # Null /\ Supplied # Secret) => (Done /\ response.status = 401 /\ NoCalls)
        /\ (Secret = Null) => response.status # 401

\* C2 (amended): the same for requests that reach the token check, that is,
\* with the API key configured, a body that parses as JSON and a token that
\* can be read (a header carries it, or the payload is not null).
C2_TokenMismatch ==
    (Received /\ IsWebhook) =>
        /\ (ApiKeyConfigured /\ TokenReadable /\ Secret # Null /\ Supplied # Secret)
              => (Done /\ response.status = 401 /\ NoCalls)
        /\ (Secret = Null) => response.status # 401

C2_Witness ==
    /\ Done /\ IsWebhook /\ ApiKeyConfigured /\ BodyIsObject
    /\ env.KIWIFY_WEBHOOK_TOKEN = Undefined /\ env.KIWIFY_TOKEN = "tokB"
    /\ request.xKiwifyToken = Null /\ request.xToken = "tokA"
    /\ request.payload.token = "tokB"
    /\ response = Reply(401, "Unauthorized")
    /\ NoCalls

GenericGroups == {"Clientes - Outros", "Recuperacao Carrinho - Outros"}
GenericTags == {"comprou_produto_desconhecido", "refund_produto_desconhecido",
                "abandonou_carrinho_desconhecido"}

ConfigFields == {"groupClient", "groupCartRecovery", "tagBought", "tagRefund",
                 "tagAbandonedCart"}

C5_KnownConfigComplete ==
    (Received /\ ctx # NoCtx /\ ctx.productId \in KnownProducts) =>
        \A f \in ConfigFields : Present(Get(ctx.productConfig, f))

\* C6: the intent of an order.approved event adds groupClient, removes
\* groupCartRecovery, adds tagBought, removes tagAbandonedCart and tagRefund,
\* and carries the customer name; tagRefund is not among the tags it adds.
C6_ApprovedIntent ==
    (Received /\ request.payload.event = "order.approved" /\ intent # NoIntent) =>
        /\ intent.groupsToAdd = <<Get(ctx.productConfig, "groupClient")>>
        /\ intent.groupsToRemove = <<Get(ctx.productConfig, "groupCartRecovery")>>
        /\ intent.tagsToAdd = <<Get(ctx.productConfig, "tagBought")>>
        /\ Range(intent.tagsToRemove) = {Get(ctx.productConfig, "tagAbandonedCart"),
                                         Get(ctx.productConfig, "tagRefund")}
        /\ intent.name = Or(request.payload.data.customer_name,
                            Or(request.payload.data.name, ""))
        /\ Get(ctx.productConfig, "tagRefund") \notin Range(intent.tagsToAdd)

\* C7: for an order.refunded, order.chargeback or order.canceled event no
\* group lookup, add-to-group or remove-from-group call concerns
\* groupCartRecovery, and the intent is exactly: remove groupClient, add
\* tagRefund, no group added, no tag removed.
GroupOps == {FindGroupOp, AddToGroupOp, RemoveFromGroupOp}

C7_RefundIntent ==
    (Received /\ IsWebhook /\ request.payload.event \in RefundEvents) =>
        /\ ctx # NoCtx =>
            /\ intent # NoIntent
            /\ intent.groupsToRemove = <<Get(ctx.productConfig, "groupClient")>>
            /\ intent.tagsToAdd = <<Get(ctx.productConfig, "tagRefund")>>
            /\ intent.groupsToAdd = << >>
            /\ intent.tagsToRemove = << >>
            /\ \A i \in Issued(GroupOps) :
                  calls[i].ref # Get(ctx.productConfig, "groupCartRecovery")
        /\ ctx = NoCtx => (intent = NoIntent /\ NoCalls)
        /\ Issued({AddToGroupOp, ListTagsOp, RemoveTagOp}) = {}

C7_Witness ==
    /\ Done /\ request.payload.event = "order.chargeback"
    /\ request.payload.data.product_id = PoliglotaId
    /\ response.status = 200
    /\ \E i \in Issued({RemoveFromGroupOp}) : calls[i].ref = "Cliente - Guia do Poliglota"
    /\ Cardinality(Issued(GroupOps)) = 2

\* C8: for a checkout.abandoned event, when the client-group lookup gave an
\* id and the membership read answered 200 with that id among the
\* subscriber's groups, no mutating remote call is issued and the response
\* is 200.
FoundMember ==
    /\ guard.groupStatus = 200 /\ Present(guard.targetId)
    /\ guard.subStatus = 200 /\ guard.targetId \in guard.groupIds

C8_MemberSuppressed ==
    (Received /\ request.payload.event = "checkout.abandoned" /\ FoundMember) =>
        /\ Done /\ response.status = 200
        /\ NoMutation
        /\ intent = NoIntent
        /\ Len(calls) = 2

C8_Witness ==
    /\ Done /\ request.payload.event = "checkout.abandoned" /\ FoundMember
    /\ env.MAILERLITE_DRY_RUN = "false"
    /\ guard.groupIds = GroupIds
    /\ [i \in 1..Len(calls) |-> calls[i].op] = <<FindGroupOp, GetMembershipOp>>
    /\ response = Reply(200, "Webhook processed")

\* C9: for a checkout.abandoned event whose guard does not find the
\* subscriber in the client group (the group lookup answers a status other
\* than 200 or gives no id, or the membership read answers a status other than
\* 200 or a list without the id), reconciliation is run with exactly: add
\* groupCartRecovery, add tagAbandonedCart, no group removed, no tag removed.
NotFoundMember ==
    \/ guard.groupStatus \notin {0, 200}
    \/ guard.groupStatus = 200 /\ ~Present(guard.targetId)
    \/ /\ guard.groupStatus = 200 /\ Present(guard.targetId)
       /\ \/ guard.subStatus \notin {0, 200}
          \/ guard.subStatus = 200 /\ guard.targetId \notin guard.groupIds

C9_CartRecoveryIssued ==
    (Received /\ request.payload.event = "checkout.abandoned" /\ NotFoundMember) =>
        /\ intent # NoIntent
        /\ intent.groupsToAdd = <<Get(ctx.productConfig, "groupCartRecovery")>>
        /\ intent.tagsToAdd = <<Get(ctx.productConfig, "tagAbandonedCart")>>
        /\ intent.groupsToRemove = << >>
        /\ intent.tagsToRemove = << >>
        /\ Issued({RemoveFromGroupOp, ListTagsOp, RemoveTagOp}) = {}
        /\ env.MAILERLITE_DRY_RUN # "true" =>
              \/ pc = "upsert:getSubscriber"
              \/ \E i \in Issued({GetSubscriberOp}) : calls[i].ref = ctx.email

C9_Witness ==
    /\ Done /\ request.payload.event = "checkout.abandoned"
    /\ guard.groupStatus = 200 /\ guard.targetId = "g1"
    /\ guard.subStatus = 200 /\ guard.groupIds = {"g2"}
    /\ request.payload.data.product_id = PlannerId
    /\ response.status = 200
    /\ \E i \in Issued({AddToGroupOp}) :
          calls[i].ref = "Carrinho Abandonado - Planner Ingles em 30 dias"

\* C10: with MAILERLITE_DRY_RUN "true" no invocation issues a mutating
\* remote call, whatever the event, the product and the remote answers: only
\* read calls occur, and a dispatched request is answered 200, or 500 when a
\* read of the abandoned-cart guard throws, as without the flag.
ReadOps == {FindGroupOp, GetMembershipOp, GetSubscriberOp, ListTagsOp}

C10_DryRun ==
    (Received /\ env.MAILERLITE_DRY_RUN = "true") =>
        /\ NoMutation
        /\ \A i \in 1..Len(calls) : calls[i].op \in ReadOps
        /\ (Done /\ ctx # NoCtx) =>
              \/ response = Reply(200, "Webhook processed")
              \/ /\ response = Caught
                 /\ request.payload.event = "checkout.abandoned"
                 /\ intent = NoIntent
                 /\ calls # << >>

C10_Witness ==
    /\ Done /\ env.MAILERLITE_DRY_RUN = "true"
    /\ request.payload.event = "checkout.abandoned"
    /\ NotFoundMember
    /\ intent # NoIntent
    /\ Len(calls) = 2
    /\ response = Reply(200, "Webhook processed")

----------------------------------------------------------------------------
(* Vocabulary of the properties about the reconciliation.                  *)

\* the request passed every check and was handed to a handler
Dispatched == Received /\ IsWebhook /\ ctx # NoCtx

GroupTagMutations == {AddToGroupOp, RemoveFromGroupOp, AddTagOp, RemoveTagOp}
GroupTagOps == GroupTagMutations \cup {FindGroupOp, ListTagsOp}
TagOps == {AddTagOp, ListTagsOp, RemoveTagOp}

IsGroupTagMutation(c) == c.op \in GroupTagMutations

\* a call and the name it is made for
Made(op, ref) == [op |-> op, ref |-> ref]

\* the mutating group and tag calls of the invocation, in order
Mutations ==
    LET ms == SelectSeq(calls, IsGroupTagMutation)
    IN  [i \in 1..Len(ms) |-> Made(ms[i].op, ms[i].ref)]

\* call i was answered 2xx and, being a lookup of a group or of a tag, found it
Succeeded(i) ==
    /\ calls[i].status \in {200, 201}
    /\ calls[i].op \in {FindGroupOp, ListTagsOp} =>
          i < Len(calls) /\ calls[i + 1].op \in {AddToGroupOp, RemoveFromGroupOp, RemoveTagOp}

AllSucceeded == \A i \in 1..Len(calls) : Succeeded(i)

----------------------------------------------------------------------------
----------------------------------------------------------------------------
\* C12: when the lookup gave no id and the creation is answered with a status
\* other than 200 and 201, the reconciliation ends there: the creation is the
\* last remote call of the invocation (no group lookup, group add or remove,
\* tag add, tag list or tag detach follows) and the response is 200.
CreationRefused(i) ==
    calls[i].op = CreateSubscriberOp /\ calls[i].status \notin {0, 200, 201}

C12_CreationRefusedAborts ==
    \A i \in 1..Len(calls) :
        CreationRefused(i) =>
            /\ Done
            /\ response = Reply(200, "Webhook processed")
            /\ \A j \in 1..Len(calls) : j > i => calls[j].op \notin GroupTagOps
            /\ i = Len(calls)

C12_Witness ==
    /\ Done /\ Dispatched /\ request.payload.event = "order.approved"
    /\ env.USE_TAGS = "true"
    /\ Len(calls) = 2
    /\ calls[1].op = GetSubscriberOp /\ calls[1].status = 404
    /\ CreationRefused(2) /\ calls[2].status = 422
    /\ subscriberId = Null
    /\ response = Reply(200, "Webhook processed")

----------------------------------------------------------------------------
\* the calls of the group and tag loops: those after the lookup or creation
\* of the subscriber
LoopCalls ==
    {i \in 1..Len(calls) :
        \E j \in 1..Len(calls) :
            j < i /\ calls[j].op \in {GetSubscriberOp, CreateSubscriberOp}}

\* the instructions attempted: each helper call begins with one of these
Attempts == {i \in LoopCalls : calls[i].op \in {FindGroupOp, AddTagOp, ListTagsOp}}

AllAttempted == Cardinality(Attempts) = Len(Instructions(intent, env))

InLoops == Dispatched /\ intent # NoIntent /\ ~Falsy(subscriberId)

----------------------------------------------------------------------------
\* C14: every POST /webhook invocation eventually completes, with a response
\* whose status is 200, 202, 400, 401 or 500; the response, once given, does
\* not change; and an invocation in which the body does not parse or a remote
\* call throws (transport failure, unreadable answer) completes at that
\* point with the 500 "Error processing webhook" of the top-level catch.
WebhookStatuses == {200, 202, 400, 401, 500}

Threw == \E i \in 1..Len(calls) : calls[i].status = 0

C14_Completes ==
    /\ (Received /\ IsWebhook) ~> (Done /\ response.status \in WebhookStatuses)
    /\ [][response # NoResponse => response' = response]_vars
    /\ []((Received /\ IsWebhook /\ response # NoResponse)
              => (Done /\ response.status \in WebhookStatuses))
    /\ []((Received /\ IsWebhook /\ ApiKeyConfigured /\ ~BodyParses)
              => (Done /\ response = Caught /\ calls = << >>))
    /\ []((Received /\ IsWebhook /\ Threw)
              => (Done /\ response = Caught /\ calls[Len(calls)].status = 0))

C14_Witness ==
    /\ Done /\ Dispatched /\ request.payload.event = "order.approved"
    /\ Len(calls) = 4
    /\ calls[4].op = AddToGroupOp /\ calls[4].status = 0
    /\ \A i \in 1..3 : calls[i].status = 200
    /\ response = Caught

----------------------------------------------------------------------------
\* C15: a request that passes the configuration, token, email and product
\* checks and whose event is none of order.approved, order.refunded,
\* order.chargeback, order.canceled, checkout.abandoned (a missing or empty
\* event included) is answered 200 without any remote call.
FiveEvents ==
    {"order.approved", "order.refunded", "order.chargeback", "order.canceled",
     "checkout.abandoned"}

PassesProductCheck == ~UnknownProduct \/ env.PROCESS_UNKNOWN_PRODUCTS = "true"

C15_UnhandledEvent ==
    (Received /\ ReachesResolution /\ PassesProductCheck
              /\ request.payload.event \notin FiveEvents)
        => (Done /\ response = Reply(200, "Webhook processed") /\ NoCalls)

C15_Witness ==
    /\ Done /\ ReachesResolution /\ PassesProductCheck
    /\ request.payload.event = Undefined
    /\ request.payload.data.product_id = "999"
    /\ env.MAILERLITE_DRY_RUN = "false"
    /\ ctx # NoCtx /\ intent = NoIntent
    /\ response = Reply(200, "Webhook processed")
    /\ NoCalls

----------------------------------------------------------------------------
\* C16: with MAILERLITE_API_KEY absent or empty every POST /webhook request is
\* answered 500 and no remote call is issued, whatever the body, the token,
\* the email, the product and the event.
C16_MissingApiKey ==
    (Received /\ IsWebhook /\ ~ApiKeyConfigured)
        => (Done /\ response.status = 500 /\ NoCalls)

C16_Witness ==
    /\ Done /\ IsWebhook /\ env.MAILERLITE_API_KEY = ""
    /\ BodyIsObject /\ ~NoEmail
    /\ Secret = "tokA" /\ Supplied = Null
    /\ request.payload.event = "order.approved"
    /\ request.payload.data.product_id = PlannerId
    /\ response = Reply(500, "Missing MAILERLITE_API_KEY")
    /\ NoCalls

----------------------------------------------------------------------------
\* the calls of the reconciliation: from the lookup of the subscriber on
ReconciliationCalls ==
    LET lookups == Issued({GetSubscriberOp})
    IN  IF lookups = {} THEN {}
        ELSE (CHOOSE i \in lookups : \A j \in lookups : i <= j)..Len(calls)

\* the stage of the reconciliation call i belongs to: 1 lookup, 2 creation,
\* 3 group additions, 4 group removals, 5 tag additions, 6 tag removals
Stage(i) ==
    CASE calls[i].op = GetSubscriberOp -> 1
      [] calls[i].op = CreateSubscriberOp -> 2
      [] calls[i].op = AddToGroupOp -> 3
      [] calls[i].op = FindGroupOp /\ calls[i].ref \in Range(intent.groupsToAdd) -> 3
      [] calls[i].op = RemoveFromGroupOp -> 4
      [] calls[i].op = FindGroupOp /\ calls[i].ref \in Range(intent.groupsToRemove) -> 4
      [] calls[i].op = AddTagOp -> 5
      [] calls[i].op \in {ListTagsOp, RemoveTagOp} -> 6
      [] OTHER -> 0

\* C19: the calls of one reconciliation are made one after the other in the
\* order lookup, creation (only when the lookup left no id), group additions,
\* group removals, tag additions, tag removals: there is one lookup, at most
\* one creation, right after it, the stages never go back, and no group or
\* tag call of the reconciliation precedes the lookup.
C19_Sequential ==
    /\ \A i \in ReconciliationCalls : Stage(i) \in 1..6
    /\ \A i \in ReconciliationCalls :
          i < Len(calls) => (Stage(i) <= Stage(i + 1) /\ Stage(i + 1) > 1)
    /\ \A i \in 1..Len(calls) :
          calls[i].op = CreateSubscriberOp => (i > 1 /\ calls[i - 1].op = GetSubscriberOp)
    /\ \A i \in 1..Len(calls) :
          i \notin ReconciliationCalls =>
              /\ calls[i].op \in {FindGroupOp, GetMembershipOp}
              /\ request.payload.event = "checkout.abandoned"
    /\ pc = "upsert:createSubscriber" => Falsy(subscriberId)

C19_Witness ==
    /\ Done /\ Dispatched /\ request.payload.event = "order.approved"
    /\ [i \in 1..Len(calls) |-> Stage(i)] = <<1, 2, 3, 3, 4, 4, 5, 6, 6, 6, 6>>
    /\ response = Reply(200, "Webhook processed")

----------------------------------------------------------------------------
\* the group calls the intent asks for, in order
GroupMutationsOf(in) ==
    [i \in 1..Len(in.groupsToAdd) |-> Made(AddToGroupOp, in.groupsToAdd[i])]
    \o [i \in 1..Len(in.groupsToRemove) |-> Made(RemoveFromGroupOp, in.groupsToRemove[i])]

\* C20: when USE_TAGS is not "true" no invocation issues a tag call (POST
\* /tags, GET /tags, DELETE of a tag attachment), whatever the event; and a
\* reconciliation whose calls all succeed still makes the group additions
\* and removals of its intent, and nothing else that mutates groups or tags.
C20_TagsOff ==
    (Received /\ env.USE_TAGS # "true") =>
        /\ Issued(TagOps) = {}
        /\ (Done /\ Dispatched /\ intent # NoIntent /\ env.MAILERLITE_DRY_RUN # "true"
                 /\ AllSucceeded)
              => Mutations = GroupMutationsOf(intent)

C20_Witness ==
    /\ Done /\ Dispatched /\ request.payload.event = "order.approved"
    /\ request.payload.data.product_id = "999"
    /\ env.USE_TAGS = "false" /\ env.MAILERLITE_DRY_RUN = "false"
    /\ intent.tagsToAdd = <<"comprou_produto_desconhecido">>
    /\ AllSucceeded
    /\ Len(calls) = 5
    /\ Mutations = <<Made(AddToGroupOp, "Clientes - Outros"),
                     Made(RemoveFromGroupOp, "Recuperacao Carrinho - Outros")>>
    /\ response = Reply(200, "Webhook processed")

----------------------------------------------------------------------------
\* the creations of a subscriber in a log of calls
Creations(cs) == {i \in 1..Len(cs) : cs[i].op = CreateSubscriberOp}

Redelivered == Done /\ delivered # << >>

\* C17: against a directory whose adds, removes, attaches and detaches are
\* idempotent, delivering a handled event a second time after the first
\* delivery completed leaves the directory (subscribers, memberships, tags)
\* as the first delivery left it, whether or not the subscriber existed
\* before, and the two deliveries together create at most one subscriber.
C17_Idempotent ==
    Redelivered =>
        /\ directory = delivered[1].directory
        /\ Cardinality(Creations(delivered[1].calls)) + Cardinality(Creations(calls)) <= 1

C17_Witness ==
    /\ Redelivered /\ request.payload.event = "order.approved"
    /\ request.payload.data.product_id = "999"
    /\ env.USE_TAGS = "true"
    /\ Creations(delivered[1].calls) = {2} /\ delivered[1].calls[2].status = 201
    /\ Len(delivered[1].calls) = 9
    /\ Creations(calls) = {}
    /\ Len(calls) = 8
    /\ calls[1].op = GetSubscriberOp /\ calls[1].status = 200
    /\ directory.subscribers = {OneEmail}
    /\ directory.members = {<<SubscriberIdOf(OneEmail), GroupIdOf("Clientes - Outros")>>}
    /\ directory.tags = {"comprou_produto_desconhecido"}

----------------------------------------------------------------------------
\* the subscriber of the request is in the group named g
InGroup(g) == <<SubscriberIdOf(ctx.email), GroupIdOf(g)>> \in directory.members

BothDone == Done /\ parked # NoInvocation /\ parked.pc = "done"

\* C18: once an order.approved and a checkout.abandoned invocation for the
\* same email and product have both completed, however their steps were
\* interleaved, the subscriber is not in groupCartRecovery while being in
\* groupClient.
C18_NoStaleCartRecovery ==
    BothDone =>
        ~(/\ InGroup(Get(ctx.productConfig, "groupClient"))
          /\ InGroup(Get(ctx.productConfig, "groupCartRecovery")))

----------------------------------------------------------------------------
\* C21: every mutating group or tag call of a reconciliation (group add,
\* group remove, tag attach, tag detach) carries a subscriber id that is not
\* null, and a reconciliation whose lookup and creation gave no id issues no
\* group or tag call.
C21_SubscriberIdCarried ==
    /\ \A i \in Issued(GroupTagMutations) : ~Falsy(calls[i].subscriber)
    /\ \A i \in LoopCalls : calls[i].op \in GroupTagOps => ~Falsy(subscriberId)

----------------------------------------------------------------------------
\* the request is answered r at its first failing check, without remote call
Rejected(r) == Done /\ response = r /\ NoCalls /\ ctx = NoCtx

\* the outcome the order of the checks gives: API key, body parse, token,
\* email, product, and only then the handler
OrderedOutcome ==
    IF ~ApiKeyConfigured THEN Rejected(Reply(500, "Missing MAILERLITE_API_KEY"))
    ELSE IF ~BodyParses THEN Rejected(Caught)
    ELSE IF Secret # Null /\ Supplied # Secret THEN Rejected(Reply(401, "Unauthorized"))
    ELSE IF NoEmail THEN Rejected(Reply(400, "No email in payload"))
    ELSE IF UnknownProduct /\ env.PROCESS_UNKNOWN_PRODUCTS # "true"
         THEN Rejected(Reply(202, "Ignored unknown product"))
    ELSE ctx # NoCtx

\* C22 (as stated): every POST /webhook request gets the outcome of the first
\* failing check in the order API key (500), body parse (500), token (401),
\* email (400), unknown product not enabled (202), and is dispatched only
\* when all pass.
C22_AnyBody == (Received /\ IsWebhook) => OrderedOutcome

\* C22 (amended): the same for requests whose body does not parse or parses
\* to a JSON value other than null; in particular a wrong token with a
\* missing email gives 401 and a missing email with an unknown product 400.
C22_CheckOrder ==
    (Received /\ IsWebhook /\ request.body # "null") =>
        /\ OrderedOutcome
        /\ (ApiKeyConfigured /\ BodyParses /\ Secret # Null /\ Supplied # Secret /\ NoEmail)
              => response.status = 401
        /\ (ApiKeyConfigured /\ BodyParses /\ TokenCheckPasses /\ NoEmail /\ UnknownProduct)
              => response.status = 400

C22_Witness ==
    /\ Done /\ IsWebhook /\ ApiKeyConfigured /\ BodyIsObject
    /\ Secret = "tokA" /\ Supplied = Null
    /\ NoEmail
    /\ request.payload.data.product_id = "999"
    /\ env.PROCESS_UNKNOWN_PRODUCTS = "false"
    /\ request.payload.event = "order.approved"
    /\ Rejected(Reply(401, "Unauthorized"))

====
